---- MODULE Spec2Model ----
(***************************************************************************)
(* Project, ProjectMembership and the admin ProjectSerializer of the cloud *)
(* management application: the permission-filtered project query, the     *)
(* provisioning calls made by saves and deletes, the nested membership     *)
(* update, tenant creation and the cache-backed compute usage report.      *)
(*                                                                         *)
(* The database state is the set of persisted projects with their columns  *)
(* and the bag of ProjectMembership rows.  Calls to the collaborators      *)
(* (GardenerService, Openstack) are recorded, not interpreted.             *)
(***************************************************************************)
EXTENDS Integers, Sequences, FiniteSets, TLC

VARIABLES
    persisted,        \* ids of the Project rows in the database
    organization,     \* Project.organization of each project (Null when unset)
    openstack_id,     \* Project.openstack_id of each project (NoId: blank)
    gardener_enabled, \* Project.gardener_enabled, a field the admin serializer writes
    memberships,      \* ProjectMembership rows: <<project, team, role>> -> number of rows
    calls,            \* GardenerService calls made by the last operation: <<kind, project>> -> count
    lastOp,           \* the operation (or step of one) that produced this state
    result,           \* what the last completed invocation returned
    cache,            \* django cache: key -> stored value, or Absent
    lastReturned,     \* per cache key: value returned by the last get_compute_usage
                      \* completed since the entry last expired (NoCall: none)
    pc,               \* per request: where it stands inside a multi-step operation
    local,            \* per request: the in-memory model instance and arguments
    osCreateCalls,    \* per project: number of Openstack.create_project calls so far
    everAssigned      \* per project: the openstack ids ever written to its row

dbVars == <<persisted, organization, openstack_id, gardener_enabled, memberships>>
usageVars == <<cache, lastReturned>>
reqVars == <<pc, local>>
tenantVars == <<osCreateCalls, everAssigned>>
vars == <<persisted, organization, openstack_id, gardener_enabled, memberships,
          calls, lastOp, result, cache, lastReturned, pc, local,
          osCreateCalls, everAssigned>>

---------------------------------------------------------------------------
(* Universe of the model *)

ProjectSeq == <<"p1", "p2">>
TeamSeq == <<"A", "B">>
ProjectIds == {ProjectSeq[i] : i \in DOMAIN ProjectSeq}
Teams == {TeamSeq[i] : i \in DOMAIN TeamSeq}
Orgs == {"o1", "o2"}
OsIds == {"os1", "os2"}
Null == "null"
NoId == ""
Requests == {"r1", "r2"}

\* ProjectMembership.ROLE_CHOICES
ADMIN == "admin"
WRITE == "write"
READ == "read"
ROLE_CHOICES == {ADMIN, WRITE, READ}

\* Most ProjectMembership rows the database holds in the model.
MaxRows == 2

MTuples == ProjectIds \X Teams \X ROLE_CHOICES

SAVE_PROJECT == "save_project"
DELETE_PROJECT == "delete_project"
CallKeys == {SAVE_PROJECT, DELETE_PROJECT} \X ProjectIds

NoCalls == [c \in CallKeys |-> 0]

\* Rows of project p with team t, whatever the role.
RowsOf(m, p, t) == m[<<p, t, ADMIN>>] + m[<<p, t, WRITE>>] + m[<<p, t, READ>>]

RECURSIVE RowsOfTeams(_, _, _)
RowsOfTeams(m, p, i) ==
    IF i > Len(TeamSeq) THEN 0 ELSE RowsOf(m, p, TeamSeq[i]) + RowsOfTeams(m, p, i + 1)

\* Rows of project p.
RowsOfProject(m, p) == RowsOfTeams(m, p, 1)

RECURSIVE RowsOfProjects(_, _)
RowsOfProjects(m, i) ==
    IF i > Len(ProjectSeq) THEN 0
    ELSE RowsOfProject(m, ProjectSeq[i]) + RowsOfProjects(m, i + 1)

\* Number of ProjectMembership rows in the table.
RowCount(m) == RowsOfProjects(m, 1)

\* Roles the requests of the model send.
InputRoles == {WRITE, READ}

\* Incoming teams lists: empty, one entry, or as many entries as there are
\* teams (naming each team once, or one team twice).
TeamsData ==
    UNION {[1..n -> Teams \X InputRoles] : n \in 0..Cardinality(Teams)}

InputTuples == ProjectIds \X Teams \X InputRoles

TeamsIn(teams_data) == {teams_data[i][1] : i \in DOMAIN teams_data}

---------------------------------------------------------------------------
(* Python values: what the operations return and what the cache holds *)

\* A value is None, a list of server usages, a summary dict, an os_project or
\* a queryset; one record shape carries them all.
Value(tag, items, total, ram, vcpus, projects) ==
    [tag |-> tag, items |-> items, total |-> total, ram |-> ram,
     vcpus |-> vcpus, projects |-> projects]

RNone == Value("None", <<>>, 0, 0, 0, {})
RList(items) == Value("list", items, 0, 0, 0, {})
RDict(total, ram, vcpus) == Value("dict", <<>>, total, ram, vcpus, {})
ROsProject(id) == Value("os_project", <<>>, 0, 0, 0, {id})
RQuerySet(S) == Value("queryset", <<>>, 0, 0, 0, S)

\* No entry under a cache key; no call yet for a cache key.
Absent == Value("absent", <<>>, 0, 0, 0, {})
NoCall == Value("nocall", <<>>, 0, 0, 0, {})

\* Server usage items the usage source reports.
ActiveItem == [state |-> "active", memory_mb |-> 512, vcpus |-> 2]
ShutoffItem == [state |-> "shutoff", memory_mb |-> 1024, vcpus |-> 4]
UsageItems == {ActiveItem, ShutoffItem}

\* Longest server usage list the usage source returns in the model.
MaxUsageLen == 2

\* What Openstack.get_compute_usage_for_project may return.
SourceValues ==
    {RNone} \cup {RList(l) : l \in UNION {[1..n -> UsageItems] : n \in 0..MaxUsageLen}}

\* Datetimes are <<day, hour>> of one month; NoTime is an omitted argument.
NoTime == <<>>
Now == <<2, 9>>
Days == {1, 2}
StartChoices == {NoTime, <<1, 12>>, <<2, 0>>}
EndChoices == {NoTime, <<2, 18>>}

\* strftime("%Y-%b-%d"): the date, without the time of day.
strftime(dt) == dt[1]

CacheKeys == ({NoId} \cup OsIds) \X Days \X Days

---------------------------------------------------------------------------
(* GardenerService: the provisioning collaborator; calls are counted *)

\* GardenerService.save_project(project): one more upsert call for p.
GardenerSave(c, p) ==
    [c EXCEPT ![<<SAVE_PROJECT, p>>] = @ + 1]

\* GardenerService.delete_project(project), n times.
GardenerDelete(c, p, n) ==
    [c EXCEPT ![<<DELETE_PROJECT, p>>] = @ + n]

\* Project.save: the row is written, then the project is pushed unless suppressed.
Project_save_calls(c, p, save_to_gardener) ==
    IF save_to_gardener THEN GardenerSave(c, p) ELSE c

\* ProjectMembership.save: the row is written, then the parent project is pushed.
ProjectMembership_save_calls(c, p) == GardenerSave(c, p)

\* post_delete receiver of ProjectMembership, run once per deleted row.
delete_project_membership(c, p, rows) == GardenerDelete(c, p, rows)

\* post_delete receiver of Project.
delete_project(c, p) == GardenerDelete(c, p, 1)

---------------------------------------------------------------------------
(* Initial state: an empty database, an empty cache, idle requests *)

NoKey == <<NoId, 0, 0>>

IdleLocal ==
    [op |-> "-", project |-> "-", instance_id |-> NoId, instance_org |-> Null,
     instance_enabled |-> FALSE, key |-> NoKey]

Init ==
    /\ persisted = {}
    /\ organization = [p \in ProjectIds |-> Null]
    /\ openstack_id = [p \in ProjectIds |-> NoId]
    /\ gardener_enabled = [p \in ProjectIds |-> FALSE]
    /\ memberships = [x \in MTuples |-> 0]
    /\ calls = NoCalls
    /\ lastOp = [op |-> "init", project |-> "-", outcome |-> "ok", args |-> <<>>]
    /\ result = RNone
    /\ cache = [k \in CacheKeys |-> Absent]
    /\ lastReturned = [k \in CacheKeys |-> NoCall]
    /\ pc = [r \in Requests |-> "idle"]
    /\ local = [r \in Requests |-> IdleLocal]
    /\ osCreateCalls = [p \in ProjectIds |-> 0]
    /\ everAssigned = [p \in ProjectIds |-> {}]

Op(op, p, outcome, args) ==
    [op |-> op, project |-> p, outcome |-> outcome, args |-> args]

---------------------------------------------------------------------------
(* Project and ProjectMembership persistence *)

\* Project.save(save_to_gardener=...) of an instance loaded (or built) in the
\* same step: an insert when p is not persisted, an update otherwise.
Project_save(p, org, enabled, save_to_gardener) ==
    /\ persisted' = persisted \cup {p}
    /\ organization' = [organization EXCEPT ![p] = org]
    /\ gardener_enabled' = [gardener_enabled EXCEPT ![p] = enabled]
    /\ calls' = Project_save_calls(NoCalls, p, save_to_gardener)
    /\ lastOp' = Op("project_save", p, "ok", <<org, enabled, save_to_gardener>>)
    /\ result' = RNone
    /\ UNCHANGED <<openstack_id, memberships>>
    /\ UNCHANGED <<usageVars, reqVars, tenantVars>>

\* Project.delete(): on_delete=CASCADE removes the project's membership rows,
\* post_delete runs for each of them, then for the project.
Project_delete(p) ==
    /\ p \in persisted
    /\ LET k == RowsOfProject(memberships, p)
       IN calls' = delete_project(delete_project_membership(NoCalls, p, k), p)
    /\ memberships' = [x \in MTuples |-> IF x[1] = p THEN 0 ELSE memberships[x]]
    /\ persisted' = persisted \ {p}
    /\ organization' = [organization EXCEPT ![p] = Null]
    /\ openstack_id' = [openstack_id EXCEPT ![p] = NoId]
    /\ gardener_enabled' = [gardener_enabled EXCEPT ![p] = FALSE]
    /\ lastOp' = Op("project_delete", p, "ok", <<>>)
    /\ result' = RNone
    /\ UNCHANGED <<usageVars, reqVars, tenantVars>>

\* ProjectMembership(project=p, team=t, role=r).save(): a new row.
ProjectMembership_create(p, t, r) ==
    /\ p \in persisted
    /\ RowCount(memberships) < MaxRows
    /\ memberships' = [memberships EXCEPT ![<<p, t, r>>] = @ + 1]
    /\ calls' = ProjectMembership_save_calls(NoCalls, p)
    /\ lastOp' = Op("membership_save", p, "ok", <<t, r>>)
    /\ result' = RNone
    /\ UNCHANGED <<persisted, organization, openstack_id, gardener_enabled>>
    /\ UNCHANGED <<usageVars, reqVars, tenantVars>>

\* save() of an existing row whose role was changed from r to r2.
ProjectMembership_update(p, t, r, r2) ==
    /\ memberships[<<p, t, r>>] > 0
    /\ r2 # r
    /\ memberships' = [memberships EXCEPT ![<<p, t, r>>] = @ - 1,
                                          ![<<p, t, r2>>] = @ + 1]
    /\ calls' = ProjectMembership_save_calls(NoCalls, p)
    /\ lastOp' = Op("membership_save", p, "ok", <<t, r2>>)
    /\ result' = RNone
    /\ UNCHANGED <<persisted, organization, openstack_id, gardener_enabled>>
    /\ UNCHANGED <<usageVars, reqVars, tenantVars>>

\* delete() of one membership row.
ProjectMembership_delete(p, t, r) ==
    /\ memberships[<<p, t, r>>] > 0
    /\ memberships' = [memberships EXCEPT ![<<p, t, r>>] = @ - 1]
    /\ calls' = delete_project_membership(NoCalls, p, 1)
    /\ lastOp' = Op("membership_delete", p, "ok", <<t, r>>)
    /\ result' = RNone
    /\ UNCHANGED <<persisted, organization, openstack_id, gardener_enabled>>
    /\ UNCHANGED <<usageVars, reqVars, tenantVars>>

---------------------------------------------------------------------------
(* The admin ProjectSerializer *)

\* Whether a row is kept by
\*   ProjectMembership.objects.exclude(project=instance, team__in=[...])
\* exclude() negates the conjunction of its conditions: the rows it leaves
\* out of the queryset are those of the instance with a listed team.
Excluded(x, p, teams_data) == x[1] = p /\ x[2] \in TeamsIn(teams_data)

\* .exclude(...).delete(): every row of the queryset is deleted and
\* post_delete runs for each one.
DeleteNotExcluded(m, c, p, teams_data) ==
    LET kept == [x \in MTuples |->
                    IF Excluded(x, p, teams_data) THEN m[x] ELSE 0]
        gone(q) == RowsOfProject(m, q) - RowsOfProject(kept, q)
    IN [m |-> kept,
        c |-> [k \in CallKeys |->
                  IF k[1] = DELETE_PROJECT
                  THEN delete_project_membership(c, k[2], gone(k[2]))[k]
                  ELSE c[k]]]

\* ProjectMembership.objects.update_or_create(project=p, team=t, defaults={role: r})
\* no row: one is created; one row: its role is set and it is saved; several
\* rows: get() raises MultipleObjectsReturned.
\* update_or_create replaced by a plain create.
update_or_create_as_create(st, p, t, r) ==
    [m |-> [st.m EXCEPT ![<<p, t, r>>] = @ + 1],
     c |-> ProjectMembership_save_calls(st.c, p),
     outcome |-> "ok"]

update_or_create(st, p, t, r) ==
    LET n == RowsOf(st.m, p, t)
    IN IF n = 0
       THEN [m |-> [st.m EXCEPT ![<<p, t, r>>] = 1],
             c |-> ProjectMembership_save_calls(st.c, p),
             outcome |-> "ok"]
       ELSE IF n = 1
       THEN [m |-> [x \in MTuples |->
                       IF x[1] = p /\ x[2] = t
                       THEN (IF x[3] = r THEN 1 ELSE 0)
                       ELSE st.m[x]],
             c |-> ProjectMembership_save_calls(st.c, p),
             outcome |-> "ok"]
       ELSE [m |-> st.m, c |-> st.c, outcome |-> "raised"]

\* for team_data in teams_data: update_or_create(...), from entry i on; an
\* exception ends the loop with what was done so far.
RECURSIVE UpsertLoop(_, _, _, _)
UpsertLoop(st, p, teams_data, i) ==
    IF i > Len(teams_data) \/ st.outcome = "raised"
    THEN st
    ELSE UpsertLoop(update_or_create(st, p, teams_data[i][1], teams_data[i][2]),
                    p, teams_data, i + 1)

\* ProjectSerializer.update(instance, validated_data) as a whole.
SerializerUpdateEffect(m, p, teams_data) ==
    LET saved == Project_save_calls(NoCalls, p, TRUE)
        del == DeleteNotExcluded(m, saved, p, teams_data)
    IN UpsertLoop([m |-> del.m, c |-> del.c, outcome |-> "ok"], p, teams_data, 1)

ProjectSerializer_update(p, enabled, teams_data) ==
    /\ p \in persisted
    /\ LET eff == SerializerUpdateEffect(memberships, p, teams_data)
       IN /\ RowCount(eff.m) <= MaxRows
          /\ memberships' = eff.m
          /\ calls' = eff.c
          /\ lastOp' = Op("serializer_update", p, eff.outcome, teams_data)
    /\ gardener_enabled' = [gardener_enabled EXCEPT ![p] = enabled]
    /\ result' = RNone
    /\ UNCHANGED <<persisted, organization, openstack_id>>
    /\ UNCHANGED <<usageVars, reqVars, tenantVars>>

\* for team_data in teams_data: ProjectMembership.objects.create(project, **team_data)
RECURSIVE CreateLoop(_, _, _, _)
CreateLoop(st, p, teams_data, i) ==
    IF i > Len(teams_data)
    THEN st
    ELSE CreateLoop(
             [m |-> [st.m EXCEPT ![<<p, teams_data[i][1], teams_data[i][2]>>] = @ + 1],
              c |-> ProjectMembership_save_calls(st.c, p)],
             p, teams_data, i + 1)

\* ProjectSerializer.create(validated_data): the project (no organization, no
\* tenant yet), then one membership per entry of the list.
ProjectSerializer_create(p, enabled, teams_data) ==
    /\ p \notin persisted
    /\ RowCount(memberships) + Len(teams_data) <= MaxRows
    /\ LET eff == CreateLoop([m |-> memberships,
                              c |-> Project_save_calls(NoCalls, p, TRUE)],
                             p, teams_data, 1)
       IN /\ memberships' = eff.m
          /\ calls' = eff.c
    /\ persisted' = persisted \cup {p}
    /\ organization' = [organization EXCEPT ![p] = Null]
    /\ openstack_id' = [openstack_id EXCEPT ![p] = NoId]
    /\ gardener_enabled' = [gardener_enabled EXCEPT ![p] = enabled]
    /\ lastOp' = Op("serializer_create", p, "ok", teams_data)
    /\ result' = RNone
    /\ UNCHANGED <<usageVars, reqVars, tenantVars>>

---------------------------------------------------------------------------
(* ProjectQuerySet.for_user *)

\* The users of the model: their organizations, their teams and what
\* has_perm("core.can_manage_all_organization_projects") answers.
Users ==
    [organizations : SUBSET Orgs, teams : SUBSET Teams, has_perm : BOOLEAN]

\* self.filter(organization__in=user.organizations.all()): a null organization
\* is in no list.
FilterOrganizationIn(qs, org, user) ==
    {p \in qs : org[p] # Null /\ org[p] \in user.organizations}

\* .filter(teams__in=user.teams.all()).distinct(): the projects with a
\* membership row whose team is one of the user's.
FilterTeamsIn(qs, m, user) ==
    {p \in qs : \E t \in user.teams : RowsOf(m, p, t) > 0}

\* for_user with the permission branch taken before the organization filter.
for_user_perm_first(all, org, m, user) ==
    IF user.has_perm
    THEN all
    ELSE FilterTeamsIn(FilterOrganizationIn(all, org, user), m, user)

for_user(all, org, m, user) ==
    LET query_set == FilterOrganizationIn(all, org, user)
    IN IF user.has_perm
       THEN query_set
       ELSE FilterTeamsIn(query_set, m, user)

\* Project.objects.for_user(user), evaluated.
ForUser(user) ==
    /\ result' = RQuerySet(for_user(persisted, organization, memberships, user))
    /\ lastOp' = Op("for_user", "-", "ok", user)
    /\ calls' = NoCalls
    /\ UNCHANGED <<dbVars, usageVars, reqVars, tenantVars>>

---------------------------------------------------------------------------
(* Project.create_openstack_project, one request at a time or several *)

\* create_openstack_project without the test of self.openstack_id.
create_openstack_project_unchecked(r, p) ==
    /\ pc[r] = "idle"
    /\ p \in persisted
    /\ lastOp' = Op("create_openstack_project", p, "checked", <<r>>)
    /\ pc' = [pc EXCEPT ![r] = "create"]
    /\ local' = [local EXCEPT ![r] =
           [op |-> "create_openstack_project", project |-> p,
            instance_id |-> openstack_id[p],
            instance_org |-> organization[p],
            instance_enabled |-> gardener_enabled[p],
            key |-> NoKey]]
    /\ calls' = NoCalls
    /\ result' = RNone
    /\ UNCHANGED <<dbVars, usageVars, tenantVars>>

\* The request loads the Project instance and tests `if self.openstack_id`.
\* A set id: warning, return None.  Otherwise the request goes on to call the
\* tenant collaborator with the instance it holds in memory.
create_openstack_project_check(r, p) ==
    /\ pc[r] = "idle"
    /\ p \in persisted
    /\ IF openstack_id[p] # NoId
       THEN /\ lastOp' = Op("create_openstack_project", p, "noop", <<r>>)
            /\ UNCHANGED reqVars
       ELSE /\ lastOp' = Op("create_openstack_project", p, "checked", <<r>>)
            /\ pc' = [pc EXCEPT ![r] = "create"]
            /\ local' = [local EXCEPT ![r] =
                   [op |-> "create_openstack_project", project |-> p,
                    instance_id |-> openstack_id[p],
                    instance_org |-> organization[p],
                    instance_enabled |-> gardener_enabled[p],
                    key |-> NoKey]]
    /\ calls' = NoCalls
    /\ result' = RNone
    /\ UNCHANGED <<dbVars, usageVars, tenantVars>>

\* os_project = Openstack().create_project(self.name); self.openstack_id =
\* os_project.id; self.save(); return os_project.  save() writes every column
\* from the instance in memory and pushes the project to the provisioner.
create_openstack_project_create(r, id) ==
    /\ pc[r] = "create"
    /\ LET p == local[r].project
       IN /\ osCreateCalls' = [osCreateCalls EXCEPT ![p] = @ + 1]
          /\ openstack_id' = [openstack_id EXCEPT ![p] = id]
          /\ organization' = [organization EXCEPT ![p] = local[r].instance_org]
          /\ gardener_enabled' =
                 [gardener_enabled EXCEPT ![p] = local[r].instance_enabled]
          /\ everAssigned' = [everAssigned EXCEPT ![p] = @ \cup {id}]
          /\ calls' = Project_save_calls(NoCalls, p, TRUE)
          /\ lastOp' = Op("create_openstack_project", p, "created", <<r>>)
    /\ result' = ROsProject(id)
    /\ pc' = [pc EXCEPT ![r] = "idle"]
    /\ local' = [local EXCEPT ![r] = IdleLocal]
    /\ UNCHANGED <<persisted, memberships, usageVars>>

---------------------------------------------------------------------------
(* Project.get_compute_usage and Project.usage_summary *)

\* start defaults to the first of this month at 00:00, end to today at 00:00.
DefaultStart(start) == IF start = NoTime THEN <<1, 0>> ELSE start
DefaultEnd(end) == IF end = NoTime THEN <<Now[1], 0>> ELSE end

\* "compute_usage.{}.{}-{}".format(openstack_id, start date, end date)
cache_key(id, start, end) ==
    <<id, strftime(DefaultStart(start)), strftime(DefaultEnd(end))>>

\* cache.get(key): None when there is no entry.
CacheGet(c, key) == IF c[key] = Absent THEN RNone ELSE c[key]

\* `if result:` in place of `if result is not None:`.
CacheHit_truthy(cached) == cached.tag # "None" /\ Len(cached.items) > 0

\* `if result is not None: return result`
CacheHit(cached) == cached.tag # "None"

\* cache.set(key, result, settings.REPORTING_CACHE_TIMEOUT)
CacheSet(c, key, value) == [c EXCEPT ![key] = value]

\* filter_active(item): the item when it is active, None otherwise.
filter_active(item) ==
    IF item.state = "active" THEN [item |-> item, none |-> FALSE]
    ELSE [item |-> item, none |-> TRUE]

\* list(map(filter_active, server_usages)): one entry per item.
MapFilterActive(items) == [i \in DOMAIN items |-> filter_active(items[i])]

\* sum(s[field] for s in server_usages if s)
RECURSIVE SumTruthy(_, _, _)
SumTruthy(mapped, field, i) ==
    IF i > Len(mapped) THEN 0
    ELSE (IF mapped[i].none THEN 0
          ELSE IF field = "memory_mb" THEN mapped[i].item.memory_mb
          ELSE mapped[i].item.vcpus)
         + SumTruthy(mapped, field, i + 1)

\* The body of usage_summary once get_compute_usage has answered.
usage_summary(server_usages) ==
    IF server_usages.tag = "None" \/ Len(server_usages.items) = 0
    THEN RNone
    ELSE LET mapped == MapFilterActive(server_usages.items)
         IN IF Len(mapped) > 0
            THEN RDict(Len(mapped),
                       SumTruthy(mapped, "memory_mb", 1),
                       SumTruthy(mapped, "vcpus", 1))
            ELSE RNone

UsageOps == {"get_compute_usage", "usage_summary"}

\* What the invocation returns once get_compute_usage has answered.
Returned(op, server_usages) ==
    IF op = "usage_summary" THEN usage_summary(server_usages) ELSE server_usages

\* get_compute_usage up to the cache lookup, called directly or from
\* usage_summary: no tenant id, a cache hit, or a miss that leaves the request
\* about to call the usage source.
get_compute_usage_lookup(r, op, p, start, end) ==
    /\ pc[r] = "idle"
    /\ p \in persisted
    /\ LET key == cache_key(openstack_id[p], start, end)
           cached == CacheGet(cache, key)
       IN IF openstack_id[p] = NoId
          THEN /\ lastOp' = Op(op, p, "unprovisioned", <<r, key, RNone>>)
               /\ result' = Returned(op, RNone)
               /\ UNCHANGED <<lastReturned, reqVars>>
          ELSE IF CacheHit(cached)
          THEN /\ lastOp' = Op(op, p, "hit", <<r, key, cached>>)
               /\ result' = Returned(op, cached)
               /\ lastReturned' = [lastReturned EXCEPT ![key] = cached]
               /\ UNCHANGED reqVars
          ELSE /\ lastOp' = Op(op, p, "miss", <<r, key, RNone>>)
               /\ result' = RNone
               /\ pc' = [pc EXCEPT ![r] = "fetch"]
               /\ local' = [local EXCEPT ![r] =
                      [op |-> op, project |-> p,
                       instance_id |-> openstack_id[p],
                       instance_org |-> organization[p],
                       instance_enabled |-> gardener_enabled[p],
                       key |-> key]]
               /\ UNCHANGED lastReturned
    /\ calls' = NoCalls
    /\ UNCHANGED <<dbVars, cache, tenantVars>>

\* Openstack().get_compute_usage_for_project(...) answers `value`; it is
\* stored under the key and returned.
get_compute_usage_fetch(r, value) ==
    /\ pc[r] = "fetch"
    /\ LET key == local[r].key
           op == local[r].op
       IN /\ cache' = CacheSet(cache, key, value)
          /\ lastReturned' = [lastReturned EXCEPT ![key] = value]
          /\ lastOp' = Op(op, local[r].project, "fetched", <<r, key, value>>)
          /\ result' = Returned(op, value)
    /\ pc' = [pc EXCEPT ![r] = "idle"]
    /\ local' = [local EXCEPT ![r] = IdleLocal]
    /\ calls' = NoCalls
    /\ UNCHANGED <<dbVars, tenantVars>>

\* REPORTING_CACHE_TIMEOUT seconds after it was set, the entry is gone.
CacheExpire(key) ==
    /\ cache[key] # Absent
    /\ cache' = [cache EXCEPT ![key] = Absent]
    /\ lastReturned' = [lastReturned EXCEPT ![key] = NoCall]
    /\ lastOp' = Op("cache_expire", "-", "ok", <<key>>)
    /\ calls' = NoCalls
    /\ result' = RNone
    /\ UNCHANGED <<dbVars, reqVars, tenantVars>>

---------------------------------------------------------------------------
(* Specification of the persistence operations *)

Next ==
    \/ \E p \in ProjectIds, s \in BOOLEAN : Project_save(p, Null, FALSE, s)
    \/ \E p \in ProjectIds : Project_delete(p)
    \/ \E x \in InputTuples : ProjectMembership_create(x[1], x[2], x[3])
    \/ \E x \in InputTuples, r2 \in InputRoles :
          ProjectMembership_update(x[1], x[2], x[3], r2)
    \/ \E x \in InputTuples : ProjectMembership_delete(x[1], x[2], x[3])
    \/ \E p \in ProjectIds, td \in TeamsData : ProjectSerializer_create(p, FALSE, td)
    \/ \E p \in ProjectIds, td \in TeamsData : ProjectSerializer_update(p, FALSE, td)

Spec == Init /\ [][Next]_vars

(* Specification of the permission-filtered query over the database *)

NextAccess ==
    \/ \E p \in ProjectIds, org \in Orgs \cup {Null} : Project_save(p, org, FALSE, TRUE)
    \/ \E p \in ProjectIds, t \in Teams : ProjectMembership_create(p, t, WRITE)
    \/ \E p \in ProjectIds, t \in Teams : ProjectMembership_delete(p, t, WRITE)
    \/ \E u \in Users : ForUser(u)

SpecAccess == Init /\ [][NextAccess]_vars

(* Specification of tenant creation by concurrent requests *)

NextTenant ==
    \/ \E p \in ProjectIds, e \in BOOLEAN : Project_save(p, Null, e, TRUE)
    \/ \E r \in Requests, p \in ProjectIds : create_openstack_project_check(r, p)
    \/ \E r \in Requests, id \in OsIds : create_openstack_project_create(r, id)

SpecTenant == Init /\ [][NextTenant]_vars

(* Specification of the usage report of one provisioned project *)

UsageProject == "p1"
UsageTenant == "os1"

NextUsage ==
    \/ Project_save(UsageProject, Null, FALSE, TRUE)
    \/ \E r \in Requests : create_openstack_project_check(r, UsageProject)
    \/ \E r \in Requests : create_openstack_project_create(r, UsageTenant)
    \/ \E r \in Requests, op \in UsageOps, start \in StartChoices, end \in EndChoices :
          get_compute_usage_lookup(r, op, UsageProject, start, end)
    \/ \E r \in Requests, v \in SourceValues : get_compute_usage_fetch(r, v)
    \/ \E k \in CacheKeys : CacheExpire(k)

SpecUsage == Init /\ [][NextUsage]_vars

---------------------------------------------------------------------------
(* Properties *)

HasTeamOf(p, user) == \E t \in user.teams : RowsOf(memberships, p, t) > 0

\* C1 as stated: P is in for_user(U) iff U holds the global permission, or
\* P.organization is one of U's organizations and a team of P is one of U's.
C1_VisibleIffPermOrOrgAndTeam ==
    lastOp.op = "for_user" =>
        result.projects =
            {p \in persisted :
                \/ lastOp.args.has_perm
                \/ /\ organization[p] \in lastOp.args.organizations
                   /\ HasTeamOf(p, lastOp.args)}

\* C1 amended: P is in for_user(U) iff P.organization is one of U's
\* organizations and (U holds the global permission or a team of P is one of
\* U's teams).
C1_VisibleIffOrgAndPermOrTeam ==
    lastOp.op = "for_user" =>
        result.projects =
            {p \in persisted :
                /\ organization[p] \in lastOp.args.organizations
                /\ lastOp.args.has_perm \/ HasTeamOf(p, lastOp.args)}

\* A permission holder sees a project of their organization that has none of
\* their teams, and does not see a persisted project outside it.
C1_Witness ==
    /\ lastOp.op = "for_user"
    /\ lastOp.args.has_perm
    /\ \E p \in result.projects : ~HasTeamOf(p, lastOp.args)
    /\ \E q \in persisted : q \notin result.projects

\* Role of the last entry of the list that names team t.
LastRole(teams_data, t) ==
    LET last == CHOOSE i \in DOMAIN teams_data :
                    /\ teams_data[i][1] = t
                    /\ \A j \in DOMAIN teams_data : teams_data[j][1] = t => j <= i
    IN teams_data[last][2]

\* C2: after ProjectSerializer.update(P, teams=L) completes, P has exactly one
\* membership per team listed in L, with the role L gives it (the last one
\* given when L names the team twice), and none for any other team.
C2_MembershipsMatchList ==
    (lastOp.op = "serializer_update" /\ lastOp.outcome = "ok") =>
        \A t \in Teams :
            IF t \in TeamsIn(lastOp.args)
            THEN /\ RowsOf(memberships, lastOp.project, t) = 1
                 /\ memberships[<<lastOp.project, t, LastRole(lastOp.args, t)>>] = 1
            ELSE RowsOf(memberships, lastOp.project, t) = 0

\* An update to [{team: B, role: read}] that deleted a membership of the
\* project and created the B one (project save plus one membership save).
C2_Witness ==
    /\ lastOp.op = "serializer_update"
    /\ lastOp.outcome = "ok"
    /\ lastOp.args = <<<<"B", READ>>>>
    /\ calls[<<DELETE_PROJECT, lastOp.project>>] = 1
    /\ calls[<<SAVE_PROJECT, lastOp.project>>] = 2
    /\ memberships[<<lastOp.project, "B", READ>>] = 1

\* C3 as stated: a ProjectMembership save or delete makes exactly one
\* save_project call for the parent project and no delete_project call.
C3_MembershipChangeSyncsProject ==
    lastOp.op \in {"membership_save", "membership_delete"} =>
        calls = GardenerSave(NoCalls, lastOp.project)

\* C4 as stated: deleting a project makes exactly one delete_project call for
\* it, however many membership rows the cascade removes; deleting one membership
\* makes exactly one provisioning call.
C4_OneCallPerDelete ==
    /\ lastOp.op = "project_delete" =>
           calls[<<DELETE_PROJECT, lastOp.project>>] = 1
    /\ lastOp.op = "membership_delete" =>
           calls[<<DELETE_PROJECT, lastOp.project>>]
               + calls[<<SAVE_PROJECT, lastOp.project>>] = 1

\* C10 as stated: ProjectSerializer.update(P, ...) leaves the membership rows
\* of every other project as they were and makes no provisioning call for it.
C10_UpdateTouchesOnlyItsProject ==
    [][lastOp'.op = "serializer_update" =>
          \A q \in ProjectIds \ {lastOp'.project} :
              /\ \A x \in MTuples : x[1] = q => memberships'[x] = memberships[x]
              /\ calls'[<<SAVE_PROJECT, q>>] = 0
              /\ calls'[<<DELETE_PROJECT, q>>] = 0]_vars

\* The usage list get_compute_usage handed to usage_summary, once it returned.
SummaryDone ==
    /\ lastOp.op = "usage_summary"
    /\ lastOp.outcome \in {"unprovisioned", "hit", "fetched"}

ActiveOnly(usage) ==
    IF usage.tag = "None" THEN <<>>
    ELSE SelectSeq(usage.items, LAMBDA item : item.state = "active")

RECURSIVE SumField(_, _)
SumField(items, field) ==
    IF items = <<>> THEN 0
    ELSE (IF field = "memory_mb" THEN Head(items).memory_mb ELSE Head(items).vcpus)
         + SumField(Tail(items), field)

\* C5 as stated: usage_summary returns None whenever the usage list has no
\* active item, also when the list is not empty.
C5_NoneWithoutActiveItem ==
    (SummaryDone /\ ActiveOnly(lastOp.args[3]) = <<>>) => result = RNone

\* C6 as stated: with at least one active item, usage_summary returns total,
\* ram and vcpus counted and summed over the active items only.
C6_SummaryOverActiveOnly ==
    (SummaryDone /\ ActiveOnly(lastOp.args[3]) # <<>>) =>
        LET active == ActiveOnly(lastOp.args[3])
        IN result = RDict(Len(active), SumField(active, "memory_mb"),
                          SumField(active, "vcpus"))

\* A get_compute_usage lookup (direct or from usage_summary) of a project
\* with a tenant id: the step after which lastOp reports a hit or a miss.
IsLookup(op) == op.op \in UsageOps /\ op.outcome \in {"hit", "miss"}

\* C7 as stated: a call with the key of a call completed within the TTL makes
\* no call to the usage source and gets the value that call returned, whatever
\* that value was.
C7_SecondCallHitsCache ==
    [][(IsLookup(lastOp') /\ lastReturned[lastOp'.args[2]] # NoCall) =>
          /\ lastOp'.outcome = "hit"
          /\ lastOp'.args[3] = lastReturned[lastOp'.args[2]]]_vars

\* C7 amended: a call that starts after a call with the same key returned a
\* value other than None, within the TTL, makes no call to the usage source
\* and gets that value.
C7_SecondCallHitsCacheUnlessNone ==
    [][(/\ IsLookup(lastOp')
        /\ lastReturned[lastOp'.args[2]] # NoCall
        /\ lastReturned[lastOp'.args[2]].tag # "None") =>
          /\ lastOp'.outcome = "hit"
          /\ lastOp'.args[3] = lastReturned[lastOp'.args[2]]]_vars

\* A direct call answered from the cache with the empty list an earlier call
\* fetched and stored.
C7_Witness ==
    /\ lastOp.op = "get_compute_usage"
    /\ lastOp.outcome = "hit"
    /\ result = RList(<<>>)
    /\ cache[lastOp.args[2]] = result

\* C8: create_openstack_project on a project whose openstack_id is set calls
\* Openstack.create_project zero times, changes no column of any project,
\* saves nothing, makes no provisioning call and returns None.
C8_NoopWhenProvisioned ==
    [][(/\ lastOp'.op = "create_openstack_project"
        /\ lastOp'.outcome \in {"noop", "checked"}
        /\ openstack_id[lastOp'.project] # NoId) =>
          /\ lastOp'.outcome = "noop"
          /\ UNCHANGED <<dbVars, tenantVars, reqVars>>
          /\ calls' = NoCalls
          /\ result' = RNone]_vars

\* The invocation has returned on a project that has a tenant id.
C8_Witness ==
    /\ lastOp.op = "create_openstack_project"
    /\ lastOp.outcome = "noop"
    /\ openstack_id[lastOp.project] # NoId
    /\ osCreateCalls[lastOp.project] = 1

\* C9 as stated: over any invocations of create_openstack_project on one
\* project, concurrent ones included, Openstack.create_project is called at
\* most once for it and its openstack_id never takes a second value.
C9_TenantCreatedAtMostOnce ==
    \A p \in ProjectIds :
        /\ osCreateCalls[p] <= 1
        /\ Cardinality(everAssigned[p]) <= 1

====
